---- MODULE Spec2Model ----
(***************************************************************************)
(* Model of the cool_rs colour library: the canonical RGBA<u8> colour, its *)
(* packed u32 codec, the hex string parser and the float rgb()/rgba()      *)
(* function-notation format (src/src/color.rs, src/src/formats.rs,         *)
(* src/src/errors.rs).                                                     *)
(*                                                                         *)
(* Every operation of the library is a pure function.  Each component has  *)
(* its own specification: Init draws the operation's inputs from bounded   *)
(* sets and the actions apply the operations to them.                      *)
(*                                                                         *)
(* Representation notes.                                                   *)
(*  - A u32 is a sequence of 32 bits, index 1 being bit 0.  TLC's integers *)
(*    are 32-bit signed, so the numeric value of a u32 is read as two      *)
(*    16-bit limbs: value = Hi16 * 2^16 + Lo16.                            *)
(*  - A &str is the sequence of its UTF-8 bytes (hex parser, which slices  *)
(*    by byte index), or the sequence of its characters (float format).    *)
(***************************************************************************)
EXTENDS Integers, Sequences, FiniteSets, TLC

VARIABLES
    comp,       \* which component this behaviour exercises
    color,      \* packed codec: the Canonical colour at hand
    packed,     \* packed codec: the Packed (u32) value at hand
    orig,       \* packed codec: the value the behaviour started from
    trace,      \* packed codec: the operations applied so far
    hexInput,   \* hex codec: the input &str (UTF-8 bytes)
    hexResult,  \* hex codec: the Result of parse_from_hex, or NotCalled
    text,       \* float format: the input &str (characters)
    matched,    \* float format: the bool matches() returned, or NotCalled
    parsed,     \* float format: the Result parse() returned, or NotCalled
    rgb,        \* colour model: the RGB<T> at hand
    alpha,      \* colour model: the alpha passed to into_rgba
    rgba,       \* colour model: the RGBA<T> into_rgba returned, or NotCalled
    back        \* colour model: the RGB<T> RGB::from returned, or NotCalled

vars == <<comp, color, packed, orig, trace, hexInput, hexResult,
          text, matched, parsed, rgb, alpha, rgba, back>>

packedVars == <<color, packed, orig, trace>>
hexVars    == <<hexInput, hexResult>>
floatVars  == <<text, matched, parsed>>
modelVars  == <<rgb, alpha, rgba, back>>

\* the value of a result variable before its operation was called
NotCalled == [tag |-> "NotCalled"]

(***************************************************************************)
(* Fixed-width integers                                                    *)
(***************************************************************************)
U32_BITS == 32
U8_BITS  == 8
U8_MAX   == 255

\* b as u32: zero-extension of a u8
AsU32(b) == [i \in 1..U32_BITS |-> IF i <= U8_BITS THEN (b \div 2^(i-1)) % 2 ELSE 0]

\* x << n on u32 (n < 32): the bits shifted past bit 31 are dropped
Shl(x, n) == [i \in 1..U32_BITS |-> IF i > n THEN x[i-n] ELSE 0]

\* x >> n on u32 (n < 32): logical shift, zeros enter at the top
Shr(x, n) == [i \in 1..U32_BITS |-> IF i + n <= U32_BITS THEN x[i+n] ELSE 0]

\* x | y on u32
BitOr(x, y) == [i \in 1..U32_BITS |-> IF x[i] = 1 \/ y[i] = 1 THEN 1 ELSE 0]

RECURSIVE BitsValue(_, _, _)
\* the number held by bits lo..hi of x (bit lo weighing 1)
BitsValue(x, lo, hi) ==
    IF lo > hi THEN 0 ELSE x[lo] + 2 * BitsValue(x, lo + 1, hi)

\* x as u8: truncation to the 8 least significant bits
AsU8(x) == BitsValue(x, 1, U8_BITS)

\* numeric value of a u32 as two 16-bit limbs: value = Hi16(x) * 2^16 + Lo16(x)
Lo16(x) == BitsValue(x, 1, 16)
Hi16(x) == BitsValue(x, 17, 32)

\* the u32 whose value is hi * 2^16 + lo
U32OfLimbs(hi, lo) ==
    [i \in 1..U32_BITS |->
        IF i <= 16 THEN (lo \div 2^(i-1)) % 2 ELSE (hi \div 2^(i-17)) % 2]

(***************************************************************************)
(* color.rs: the colour model                                              *)
(***************************************************************************)
BIT_SHIFT_RED   == 4 * 6
BIT_SHIFT_GREEN == 4 * 4
BIT_SHIFT_BLUE  == 4 * 2

RGB_new(red, green, blue) == [r |-> red, g |-> green, b |-> blue]

RGBA_new(red, green, blue, a) == [r |-> red, g |-> green, b |-> blue, a |-> a]

RGB_into_rgba_swapped(self, a) == [r |-> self.b, g |-> self.g, b |-> self.r, a |-> a]

\* RGB::into_rgba
RGB_into_rgba(self, a) == [r |-> self.r, g |-> self.g, b |-> self.b, a |-> a]

\* impl From<RGBA<T>> for RGB<T>
RGB_from(c) == [r |-> c.r, g |-> c.g, b |-> c.b]

\* RGBA::into_rgba
RGBA_into_rgba(self, a) == [r |-> self.r, g |-> self.g, b |-> self.b, a |-> a]

\* impl From<RGB<u8>> for RGBA<u8>
RGBA_from(c) == [r |-> c.r, g |-> c.g, b |-> c.b, a |-> U8_MAX]

(***************************************************************************)
(* color.rs: the packed codec                                              *)
(***************************************************************************)
pack_noGreenShift(self) ==
    LET r == Shl(AsU32(self.r), BIT_SHIFT_RED)
        g == Shl(AsU32(self.g), BIT_SHIFT_BLUE)
        b == Shl(AsU32(self.b), BIT_SHIFT_BLUE)
        a == AsU32(self.a)
    IN  BitOr(BitOr(BitOr(r, g), b), a)

\* Canonical::pack
pack(self) ==
    LET r == Shl(AsU32(self.r), BIT_SHIFT_RED)
        g == Shl(AsU32(self.g), BIT_SHIFT_GREEN)
        b == Shl(AsU32(self.b), BIT_SHIFT_BLUE)
        a == AsU32(self.a)
    IN  BitOr(BitOr(BitOr(r, g), b), a)

unpack_swapped(p) ==
    [r |-> AsU8(Shr(p, BIT_SHIFT_RED)),
     g |-> AsU8(Shr(p, BIT_SHIFT_BLUE)),
     b |-> AsU8(Shr(p, BIT_SHIFT_GREEN)),
     a |-> AsU8(p)]

\* Canonical::unpack
unpack(p) ==
    [r |-> AsU8(Shr(p, BIT_SHIFT_RED)),
     g |-> AsU8(Shr(p, BIT_SHIFT_GREEN)),
     b |-> AsU8(Shr(p, BIT_SHIFT_BLUE)),
     a |-> AsU8(p)]

(***************************************************************************)
(* Inputs of the packed codec                                              *)
(***************************************************************************)
\* u8 values: the ends, the sign bit, a checkerboard and the tests' literals
ByteSamples == {0, 1, 127, 128, 171, 172, 255}

CanonicalSamples ==
    [r : ByteSamples, g : ByteSamples, b : ByteSamples, a : ByteSamples]

\* 16-bit limbs made of two sample bytes
LimbSamples == {x * 256 + y : x \in ByteSamples, y \in ByteSamples}

PackedSamples == {U32OfLimbs(hi, lo) : hi \in LimbSamples, lo \in LimbSamples}

ZeroColor  == [r |-> 0, g |-> 0, b |-> 0, a |-> 0]
ZeroPacked == [i \in 1..U32_BITS |-> 0]

IdlePacked ==
    color = ZeroColor /\ packed = ZeroPacked /\ orig = [kind |-> "none"] /\ trace = <<>>
IdleHex    == hexInput = <<>> /\ hexResult = NotCalled
IdleFloat  == text = <<>> /\ matched = NotCalled /\ parsed = NotCalled
IdleModel  == rgb = NotCalled /\ alpha = 0 /\ rgba = NotCalled /\ back = NotCalled

MaxOps == 2

InitPacked ==
    /\ comp = "packed"
    /\ trace = <<>>
    /\ \/ /\ color \in CanonicalSamples
          /\ packed = ZeroPacked
          /\ orig = [kind |-> "color", val |-> color]
       \/ /\ packed \in PackedSamples
          /\ color = ZeroColor
          /\ orig = [kind |-> "packed", val |-> packed]
    /\ IdleHex /\ IdleFloat /\ IdleModel

\* a call of Canonical::pack on the colour at hand
Pack ==
    /\ comp = "packed"
    /\ Len(trace) < MaxOps
    /\ IF trace = <<>> THEN orig.kind = "color" ELSE trace[Len(trace)] = "unpack"
    /\ packed' = pack(color)
    /\ trace' = Append(trace, "pack")
    /\ UNCHANGED <<comp, color, orig, hexVars, floatVars, modelVars>>

\* a call of Canonical::unpack on the packed value at hand
Unpack ==
    /\ comp = "packed"
    /\ Len(trace) < MaxOps
    /\ IF trace = <<>> THEN orig.kind = "packed" ELSE trace[Len(trace)] = "pack"
    /\ color' = unpack(packed)
    /\ trace' = Append(trace, "unpack")
    /\ UNCHANGED <<comp, packed, orig, hexVars, floatVars, modelVars>>

NextPacked == Pack \/ Unpack

SpecPacked == InitPacked /\ [][NextPacked]_vars

(***************************************************************************)
(* color.rs: the hex codec.  A &str is the sequence of its UTF-8 bytes.    *)
(***************************************************************************)
HASH  == 35      \* '#'
PLUS  == 43      \* '+'
MINUS == 45      \* '-'

\* a UTF-8 continuation byte (0b10xxxxxx): not the first byte of a character
IsContinuation(byte) == byte >= 128 /\ byte <= 191

\* str::is_char_boundary
is_char_boundary(s, idx) ==
    \/ idx = 0
    \/ idx = Len(s)
    \/ idx < Len(s) /\ ~IsContinuation(s[idx + 1])

\* &s[lo..hi]: the byte range, or a panic when an end is not a char boundary
Slice(s, lo, hi) ==
    IF lo <= hi /\ is_char_boundary(s, lo) /\ is_char_boundary(s, hi)
    THEN [tag |-> "Ok", val |-> SubSeq(s, lo + 1, hi)]
    ELSE [tag |-> "Panic"]

RECURSIVE trim_start_matches(_, _)
\* str::trim_start_matches(char): every leading occurrence is removed
trim_start_matches(s, c) ==
    IF s # <<>> /\ s[1] = c THEN trim_start_matches(Tail(s), c) ELSE s

to_digit_upperAsDecimal(byte) ==
    IF byte >= 48 /\ byte <= 57 THEN byte - 48
    ELSE IF byte >= 97 /\ byte <= 102 THEN byte - 97 + 10
    ELSE IF byte >= 65 /\ byte <= 70 THEN byte - 65
    ELSE -1

\* char::to_digit(16) of an ASCII byte, -1 for None
to_digit(byte) ==
    IF byte >= 48 /\ byte <= 57 THEN byte - 48
    ELSE IF byte >= 97 /\ byte <= 102 THEN byte - 97 + 10
    ELSE IF byte >= 65 /\ byte <= 70 THEN byte - 65 + 10
    ELSE -1

RECURSIVE AccumulateDigits(_, _, _)
\* the digit loop of from_str_radix: result = result * radix + digit,
\* checked against u8::MAX
AccumulateDigits(digits, radix, result) ==
    IF digits = <<>> THEN [tag |-> "Ok", val |-> result]
    ELSE IF to_digit(digits[1]) < 0 \/ to_digit(digits[1]) >= radix
         THEN [tag |-> "Err", kind |-> "InvalidDigit"]
    ELSE IF result * radix + to_digit(digits[1]) > U8_MAX
         THEN [tag |-> "Err", kind |-> "PosOverflow"]
    ELSE AccumulateDigits(Tail(digits), radix, result * radix + to_digit(digits[1]))

\* u8::from_str_radix(src, radix): an unsigned type takes one leading '+'
\* as a sign and no '-'
u8_from_str_radix(src, radix) ==
    IF src = <<>> THEN [tag |-> "Err", kind |-> "Empty"]
    ELSE IF Len(src) = 1 /\ src[1] \in {PLUS, MINUS}
         THEN [tag |-> "Err", kind |-> "InvalidDigit"]
    ELSE AccumulateDigits(IF src[1] = PLUS THEN Tail(src) ELSE src, radix, 0)

\* impl From<ParseIntError> for ColorError
ColorError_from(e) == [tag |-> "Err", err |-> "ParseToIntError", kind |-> e.kind]

\* u8::from_str_radix(&hex_str[lo..hi], 16)? : Ok(value), the converted
\* error the ? operator returns, or the panic of the slice
HexGroup(hex_str, lo, hi) ==
    LET sl == Slice(hex_str, lo, hi)
    IN  IF sl.tag = "Panic" THEN sl
        ELSE LET v == u8_from_str_radix(sl.val, 16)
             IN  IF v.tag = "Ok" THEN v ELSE ColorError_from(v)

\* Canonical::parse_from_hex
parse_from_hex(input) ==
    LET hex_str == trim_start_matches(input, HASH)
        r == HexGroup(hex_str, 0, 2)
        g == HexGroup(hex_str, 2, 4)
        b == HexGroup(hex_str, 4, 6)
        a == HexGroup(hex_str, 6, 8)
    IN  IF Len(hex_str) = 6 THEN
            IF r.tag # "Ok" THEN r
            ELSE IF g.tag # "Ok" THEN g
            ELSE IF b.tag # "Ok" THEN b
            ELSE [tag |-> "Ok", color |-> RGBA_new(r.val, g.val, b.val, U8_MAX)]
        ELSE IF Len(hex_str) = 8 THEN
            IF r.tag # "Ok" THEN r
            ELSE IF g.tag # "Ok" THEN g
            ELSE IF b.tag # "Ok" THEN b
            ELSE IF a.tag # "Ok" THEN a
            ELSE [tag |-> "Ok", color |-> RGBA_new(r.val, g.val, b.val, a.val)]
        ELSE [tag |-> "Err", err |-> "ParseHexError"]

(***************************************************************************)
(* Inputs of the hex codec: strings put together from short pieces         *)
(***************************************************************************)
\* "1", "aF", "+f", "-1", U+00E9 (two bytes), "g0", "#"
HexPieces ==
    {<<49>>, <<97, 70>>, <<PLUS, 102>>, <<MINUS, 49>>, <<195, 169>>, <<103, 48>>, <<HASH>>}

MaxPieces == 5

RECURSIVE Concat(_)
Concat(ss) == IF ss = <<>> THEN <<>> ELSE Head(ss) \o Concat(Tail(ss))

HexInputs ==
    {Concat(ps) : ps \in UNION {[1..n -> HexPieces] : n \in 0..MaxPieces}}

InitHex ==
    /\ comp = "hex"
    /\ hexInput \in HexInputs
    /\ hexResult = NotCalled
    /\ IdlePacked /\ IdleFloat /\ IdleModel

\* a call of Canonical::parse_from_hex on the input
ParseFromHex ==
    /\ comp = "hex"
    /\ hexResult = NotCalled
    /\ hexResult' = parse_from_hex(hexInput)
    /\ UNCHANGED <<comp, hexInput, packedVars, floatVars, modelVars>>

NextHex == ParseFromHex

SpecHex == InitHex /\ [][NextHex]_vars

(***************************************************************************)
(* Inputs of the colour model                                              *)
(***************************************************************************)
\* component values of a generic RGB<T>
ComponentSamples == {0, 10, 128, 255}

InitModel ==
    /\ comp = "model"
    /\ rgb \in [r : ComponentSamples, g : ComponentSamples, b : ComponentSamples]
    /\ alpha \in ComponentSamples
    /\ rgba = NotCalled
    /\ back = NotCalled
    /\ IdlePacked /\ IdleHex /\ IdleFloat

\* a call of RGB::into_rgba(alpha) on the 3-channel colour
IntoRgba ==
    /\ comp = "model"
    /\ rgba = NotCalled
    /\ rgba' = RGB_into_rgba(rgb, alpha)
    /\ UNCHANGED <<comp, rgb, alpha, back, packedVars, hexVars, floatVars>>

\* a call of RGB::from on the 4-channel colour into_rgba returned
FromRgba ==
    /\ comp = "model"
    /\ rgba # NotCalled
    /\ back = NotCalled
    /\ back' = RGB_from(rgba)
    /\ UNCHANGED <<comp, rgb, alpha, rgba, packedVars, hexVars, floatVars>>

NextModel == IntoRgba \/ FromRgba

SpecModel == InitModel /\ [][NextModel]_vars

(***************************************************************************)
(* The f32 values the float format handles.  A decimal literal N / D       *)
(* (D a power of ten) is kept exact, except where rounding to the nearest  *)
(* f32 decides a comparison of the code: every literal within half an ulp  *)
(* of 1.0 (2^-24 above, 2^-25 below) parses to the f32 1.0.                *)
(***************************************************************************)
F32(n, d) == [num |-> n, den |-> d]
F32_ZERO  == F32(0, 1)
F32_ONE   == F32(1, 1)

\* x <= y on f32
F32Le(x, y) == x.num * y.den <= y.num * x.den

AsciiDigits == {"0", "1", "2", "3", "4", "5", "6", "7", "8", "9"}

\* U+0663 ARABIC-INDIC DIGIT THREE: a decimal digit for the regex class \d,
\* not for f32's FromStr
ARABIC_THREE == "U+0663"

DigitVal(c) ==
    CASE c = "0" -> 0 [] c = "1" -> 1 [] c = "2" -> 2 [] c = "3" -> 3
      [] c = "4" -> 4 [] c = "5" -> 5 [] c = "6" -> 6 [] c = "7" -> 7
      [] c = "8" -> 8 [] c = "9" -> 9

RECURSIVE DecValue(_, _)
\* the number a sequence of ASCII digits writes, after the digits in acc
DecValue(digits, acc) ==
    IF digits = <<>> THEN acc ELSE DecValue(Tail(digits), acc * 10 + DigitVal(digits[1]))

\* the f32 nearest to n / d (round to nearest, ties to even)
RoundF32(n, d) ==
    IF n >= d /\ n - d <= d \div 2^24 THEN F32_ONE
    ELSE IF n < d /\ d - n <= d \div 2^25 THEN F32_ONE
    ELSE F32(n, d)

\* the exact value n / d of the decimal literal <digits>.<digits>
DecimalValue(str) ==
    LET dot  == CHOOSE i \in 1..Len(str) : str[i] = "."
        frac == SubSeq(str, dot + 1, Len(str))
    IN  F32(DecValue(SubSeq(str, 1, dot - 1) \o frac, 0), 10^Len(frac))

\* str::parse::<f32> on a string <digits>.<digits>
parse_f32(str) ==
    IF \E i \in 1..Len(str) : str[i] \notin AsciiDigits \cup {"."}
    THEN [tag |-> "Err", kind |-> "ParseFloatError"]
    ELSE [tag |-> "Ok", val |-> RoundF32(DecimalValue(str).num, DecimalValue(str).den)]

\* Canonical::from_f: not in the sources; 0.0 -> 0, 1.0 -> 255, linear between
from_f_component(f) == (f.num * U8_MAX * 2 + f.den) \div (f.den * 2)

from_f(r, g, b, a) ==
    RGBA_new(from_f_component(r), from_f_component(g),
             from_f_component(b), from_f_component(a))

(***************************************************************************)
(* formats.rs: RGBA_F_REGEX.  A &str is the sequence of its characters.    *)
(***************************************************************************)
\* the regex class \s and str::trim's White_Space
IsSpace(c) == c \in {" ", "\t"}

\* the regex class \d (Unicode decimal digits)
IsDigit(c) == c \in AsciiDigits \cup {ARABIC_THREE}

\* the character at position i, "" past the ends
At(s, i) == IF i >= 1 /\ i <= Len(s) THEN s[i] ELSE ""

RECURSIVE SkipSpaces(_, _)
\* \s* from position i: the position after the spaces
SkipSpaces(s, i) == IF IsSpace(At(s, i)) THEN SkipSpaces(s, i + 1) ELSE i

RECURSIVE SkipDigits(_, _)
\* \d* from position i: the position after the digits
SkipDigits(s, i) == IF IsDigit(At(s, i)) THEN SkipDigits(s, i + 1) ELSE i

\* [01]\.\d+ at position i: the position after it, 0 when it does not match
MatchFloat(s, i) ==
    IF At(s, i) \in {"0", "1"} /\ At(s, i + 1) = "." /\ IsDigit(At(s, i + 2))
    THEN SkipDigits(s, i + 3)
    ELSE 0

\* \s*(?P<x>[01]\.\d+)\s* at position i
MatchComponent(s, i) ==
    LET from == SkipSpaces(s, i)
        to   == MatchFloat(s, from)
    IN  IF to = 0 THEN [ok |-> FALSE]
        ELSE [ok |-> TRUE, str |-> SubSeq(s, from, to - 1), next |-> SkipSpaces(s, to)]

NoMatch == [ok |-> FALSE]
None    == [some |-> FALSE]
Some(x) == [some |-> TRUE, str |-> x]

\* RGBA_F_REGEX anchored at position i.  No alternative of the pattern can
\* start where another does, so the match at a position is unique.
MatchAt(s, i) ==
    LET open == IF At(s, i + 3) \in {"a", "A"} THEN i + 4 ELSE i + 3
        r == MatchComponent(s, open + 1)
        g == MatchComponent(s, r.next + 1)
        b == MatchComponent(s, g.next + 1)
        a == MatchComponent(s, b.next + 1)
    IN  IF ~(/\ At(s, i) \in {"r", "R"}
             /\ At(s, i + 1) \in {"g", "G"}
             /\ At(s, i + 2) \in {"b", "B"}
             /\ At(s, open) = "(") THEN NoMatch
        ELSE IF ~(r.ok /\ At(s, r.next) = ",") THEN NoMatch
        ELSE IF ~(g.ok /\ At(s, g.next) = ",") THEN NoMatch
        ELSE IF ~b.ok THEN NoMatch
        ELSE IF At(s, b.next) = ")"
             THEN [ok |-> TRUE, start |-> i, end |-> b.next,
                   r |-> Some(r.str), g |-> Some(g.str), b |-> Some(b.str), a |-> None]
        ELSE IF At(s, b.next) = "," /\ a.ok /\ At(s, a.next) = ")"
             THEN [ok |-> TRUE, start |-> i, end |-> a.next,
                   r |-> Some(r.str), g |-> Some(g.str), b |-> Some(b.str),
                   a |-> Some(a.str)]
        ELSE NoMatch

RECURSIVE Search(_, _)
\* the leftmost match at or after position i (the regex is not anchored)
Search(s, i) ==
    IF i > Len(s) THEN NoMatch
    ELSE IF MatchAt(s, i).ok THEN MatchAt(s, i)
    ELSE Search(s, i + 1)

\* Regex::is_match
is_match(s) == Search(s, 1).ok

\* Regex::captures
captures(s) == Search(s, 1)

RECURSIVE trim_start(_)
trim_start(s) == IF s # <<>> /\ IsSpace(s[1]) THEN trim_start(Tail(s)) ELSE s

RECURSIVE trim_end(_)
trim_end(s) ==
    IF s # <<>> /\ IsSpace(s[Len(s)]) THEN trim_end(SubSeq(s, 1, Len(s) - 1)) ELSE s

\* str::trim
trim(s) == trim_end(trim_start(s))

(***************************************************************************)
(* formats.rs: RGBFloatFormat                                              *)
(***************************************************************************)
ParseFormatError(why) ==
    [tag |-> "Err", err |-> "ParseFormatError", format |-> "RGBf", why |-> why]

\* impl From<ParseFloatError> for ParseFormatError
ParseFormatError_from(e) == ParseFormatError("unable to parse captured string to float")

extract_float_in_range_noUpper(match_opt) ==
    IF match_opt.some
    THEN LET f == parse_f32(match_opt.str)
         IN  IF f.tag = "Err" THEN ParseFormatError_from(f)
             ELSE IF F32Le(F32_ZERO, f.val)
                  THEN [tag |-> "Ok", val |-> f.val]
                  ELSE ParseFormatError("not within valid range")
    ELSE ParseFormatError("required float color component is missing")

\* extract_float_in_range
extract_float_in_range(match_opt) ==
    IF match_opt.some
    THEN LET f == parse_f32(match_opt.str)
         IN  IF f.tag = "Err" THEN ParseFormatError_from(f)
             ELSE IF F32Le(F32_ZERO, f.val) /\ F32Le(f.val, F32_ONE)
                  THEN [tag |-> "Ok", val |-> f.val]
                  ELSE ParseFormatError("not within valid range")
    ELSE ParseFormatError("required float color component is missing")

\* RGBFloatFormat::matches
RGBFloatFormat_matches(color_str) == is_match(trim(color_str))

RGBFloatFormat_parse_alphaZero(color_str) ==
    LET caps == captures(color_str)
        r == extract_float_in_range(caps.r)
        g == extract_float_in_range(caps.g)
        b == extract_float_in_range(caps.b)
        a == IF caps.a.some THEN extract_float_in_range(caps.a)
             ELSE [tag |-> "Ok", val |-> F32_ZERO]
    IN  IF ~caps.ok THEN ParseFormatError("no match")
        ELSE IF r.tag # "Ok" THEN r
        ELSE IF g.tag # "Ok" THEN g
        ELSE IF b.tag # "Ok" THEN b
        ELSE IF a.tag # "Ok" THEN a
        ELSE [tag |-> "Ok", color |-> from_f(r.val, g.val, b.val, a.val)]

\* RGBFloatFormat::parse
RGBFloatFormat_parse(color_str) ==
    LET caps == captures(color_str)
        r == extract_float_in_range(caps.r)
        g == extract_float_in_range(caps.g)
        b == extract_float_in_range(caps.b)
        a == IF caps.a.some THEN extract_float_in_range(caps.a)
             ELSE [tag |-> "Ok", val |-> F32_ONE]
    IN  IF ~caps.ok THEN ParseFormatError("no match")
        ELSE IF r.tag # "Ok" THEN r
        ELSE IF g.tag # "Ok" THEN g
        ELSE IF b.tag # "Ok" THEN b
        ELSE IF a.tag # "Ok" THEN a
        ELSE [tag |-> "Ok", color |-> from_f(r.val, g.val, b.val, a.val)]

(***************************************************************************)
(* Inputs of the float format: a pattern-like text put together from       *)
(* a prefix, a keyword, components, an optional alpha, a closing paren and *)
(* a suffix, each drawn from a set that holds well-formed and ill-formed   *)
(* choices.                                                                *)
(***************************************************************************)
\* <<prefix, suffix>>: none, surrounding spaces, a foreign character
\* before the keyword, one after the closing paren
Wraps == {<< <<>>, <<>> >>, << <<" ">>, <<" ">> >>,
          << <<"x">>, <<>> >>, << <<>>, <<"x">> >>}

\* "rgb", "RgBa", "rg"
Keywords == {<<"r", "g", "b">>, <<"R", "g", "B", "a">>, <<"r", "g">>}

\* "0.0", "1.0", "1.5", " 0.25 ", "0", "1.00000001", "-1.0", "0.<U+0663>"
ComponentTexts ==
    {<<"0", ".", "0">>, <<"1", ".", "0">>, <<"1", ".", "5">>,
     <<" ", "0", ".", "2", "5", " ">>, <<"0">>,
     <<"1", ".", "0", "0", "0", "0", "0", "0", "0", "1">>,
     <<"-", "1", ".", "0">>, <<"0", ".", ARABIC_THREE>>}

\* the alpha part: absent, ",0.5", ",1.5", ", 1.0 "
AlphaTexts ==
    {<<>>, <<",", "0", ".", "5">>, <<",", "1", ".", "5">>,
     <<",", " ", "1", ".", "0", " ">>}

\* the closing paren, or none (the text of test_color_format_parse)
Closings == {<<")">>, <<>>}

FloatTexts ==
    {w[1] \o k \o <<"(">> \o c1 \o <<",">> \o c2 \o <<",">> \o c3 \o al \o cl \o w[2] :
        w \in Wraps, k \in Keywords, c1 \in ComponentTexts, c2 \in ComponentTexts,
        c3 \in ComponentTexts, al \in AlphaTexts, cl \in Closings}

InitFloat ==
    /\ comp = "float"
    /\ text \in FloatTexts
    /\ matched = NotCalled
    /\ parsed = NotCalled
    /\ IdlePacked /\ IdleHex /\ IdleModel

\* a call of RGBFloatFormat::matches on the text
Matches ==
    /\ comp = "float"
    /\ matched = NotCalled
    /\ matched' = [tag |-> "Ok", val |-> RGBFloatFormat_matches(text)]
    /\ UNCHANGED <<comp, text, parsed, packedVars, hexVars, modelVars>>

\* a call of RGBFloatFormat::parse on the text
Parse ==
    /\ comp = "float"
    /\ parsed = NotCalled
    /\ parsed' = RGBFloatFormat_parse(text)
    /\ UNCHANGED <<comp, text, matched, packedVars, hexVars, modelVars>>

NextFloat == Matches \/ Parse

SpecFloat == InitFloat /\ [][NextFloat]_vars

(***************************************************************************)
(* Properties of the packed codec (SpecPacked)                             *)
(***************************************************************************)
LastOp == IF trace = <<>> THEN "none" ELSE trace[Len(trace)]

\* C1: pack and unpack are mutually inverse.  A colour that was packed and
\* unpacked again is the colour the behaviour started from, and a 32-bit
\* value that was unpacked and packed again is the value it started from.
C1_PackUnpackInverse ==
    /\ (orig.kind = "color" /\ LastOp = "unpack") => color = orig.val
    /\ (orig.kind = "packed" /\ LastOp = "pack") => packed = orig.val

C1_Witness ==
    /\ orig.kind = "color"
    /\ trace = <<"pack", "unpack">>
    /\ orig.val = [r |-> 128, g |-> 1, b |-> 172, a |-> 255]

\* the four operands pack ORs together
PackOperands(c) ==
    <<Shl(AsU32(c.r), BIT_SHIFT_RED), Shl(AsU32(c.g), BIT_SHIFT_GREEN),
      Shl(AsU32(c.b), BIT_SHIFT_BLUE), AsU32(c.a)>>

\* operand k has bits only in byte lane k (lane 1 = bits 24..31, ..., lane 4 = bits 0..7)
InLane(x, k) == \A i \in 1..32 : x[i] = 1 => (i - 1) \div 8 = 4 - k

\* C2: pack(c) is r*2^24 + g*2^16 + b*2^8 + a, that is the limbs
\* (r*2^8 + g, b*2^8 + a) of value = Hi16 * 2^16 + Lo16, each operand stays
\* in its own byte lane; unpack(p) returns the four bytes of p in R,G,B,A
\* order; and the two literals of the tests hold
\* (2155872511 = 32896 * 2^16 + 255, 2896932011 = 44203 * 2^16 + 44203).
C2_PackLayout ==
    /\ LastOp = "pack" =>
          /\ Hi16(packed) = color.r * 2^8 + color.g
          /\ Lo16(packed) = color.b * 2^8 + color.a
          /\ \A k \in 1..4 : InLane(PackOperands(color)[k], k)
          /\ color = [r |-> 128, g |-> 128, b |-> 0, a |-> 255]
                => Hi16(packed) = 32896 /\ Lo16(packed) = 255
    /\ LastOp = "unpack" =>
          /\ color = [r |-> Hi16(packed) \div 2^8, g |-> Hi16(packed) % 2^8,
                      b |-> Lo16(packed) \div 2^8, a |-> Lo16(packed) % 2^8]
          /\ (Hi16(packed) = 44203 /\ Lo16(packed) = 44203)
                => color = [r |-> 172, g |-> 171, b |-> 172, a |-> 171]

C2_Witness ==
    /\ trace = <<"pack">>
    /\ color = [r |-> 128, g |-> 128, b |-> 0, a |-> 255]
    /\ Hi16(packed) = 32896

(***************************************************************************)
(* Properties of the hex codec (SpecHex)                                   *)
(***************************************************************************)
HexCalled == hexResult # NotCalled

\* the input without one optional leading '#'
StripOptionalHash(s) == IF s # <<>> /\ s[1] = HASH THEN Tail(s) ELSE s

\* '0'..'9', 'A'..'F', 'a'..'f'
HexDigitBytes == (48..57) \cup (65..70) \cup (97..102)

HexDigitValue(byte) ==
    IF byte <= 57 THEN byte - 48 ELSE IF byte <= 70 THEN byte - 55 ELSE byte - 87

\* the base-16 value of the k-th 2-character group of s
GroupValue(s, k) == 16 * HexDigitValue(s[2 * k - 1]) + HexDigitValue(s[2 * k])

AllHexDigits(s) == \A i \in 1..Len(s) : s[i] \in HexDigitBytes

\* C3: after an optional leading '#', 6 hexadecimal characters parse to
\* the colour of the three groups with alpha 255, and 8 hexadecimal
\* characters to the colour of the four groups.
C3_HexParse ==
    HexCalled =>
        LET d == StripOptionalHash(hexInput)
        IN  /\ (Len(d) = 6 /\ AllHexDigits(d)) =>
                  hexResult = [tag |-> "Ok",
                               color |-> [r |-> GroupValue(d, 1), g |-> GroupValue(d, 2),
                                          b |-> GroupValue(d, 3), a |-> 255]]
            /\ (Len(d) = 8 /\ AllHexDigits(d)) =>
                  hexResult = [tag |-> "Ok",
                               color |-> [r |-> GroupValue(d, 1), g |-> GroupValue(d, 2),
                                          b |-> GroupValue(d, 3), a |-> GroupValue(d, 4)]]

C3_Witness ==
    /\ HexCalled
    /\ hexInput = <<HASH, 97, 70, 97, 70, 97, 70, 97, 70>>
    /\ hexResult.tag = "Ok"
    /\ hexResult.color.a = 175

\* C4: every input whose digit portion, after one optional leading '#' is
\* stripped, is neither 6 nor 8 long fails with the hex-length error.
C4_HexLengthError ==
    (HexCalled /\ Len(StripOptionalHash(hexInput)) \notin {6, 8}) =>
        (hexResult.tag = "Err" /\ hexResult.err = "ParseHexError")

\* C5: every input of length 6 or 8 after the '#' with a 2-character group
\* that is not two hexadecimal digits fails with the integer-parse error.
\* Stated for the ASCII inputs with at most one leading '#', where neither
\* the slicing (C6) nor the stripping of further '#' (C4) comes into play.
C5_IntParseError ==
    LET d == StripOptionalHash(hexInput)
    IN  (/\ HexCalled
         /\ Len(d) \in {6, 8}
         /\ d[1] # HASH
         /\ \A i \in 1..Len(d) : d[i] < 128
         /\ \E k \in 1..(Len(d) \div 2) :
                d[2 * k - 1] \notin HexDigitBytes \/ d[2 * k] \notin HexDigitBytes)
        => (hexResult.tag = "Err" /\ hexResult.err = "ParseToIntError")

\* C6: parse_from_hex never panics: it returns a colour or a ColorError.
C6_HexNeverPanics == HexCalled => hexResult.tag \in {"Ok", "Err"}

(***************************************************************************)
(* Properties of the float format (SpecFloat)                              *)
(***************************************************************************)
\* the whole of s is one rgb(...)/rgba(...) expression
WholeMatch(s) == MatchAt(s, 1).ok /\ MatchAt(s, 1).end = Len(s)

\* C7: matches(text) is true if and only if the whole trimmed text is a
\* float-notation expression.
C7_MatchesWholeText ==
    matched # NotCalled => (matched.val <=> WholeMatch(trim(text)))

\* the components the pattern captures in the text
Captured(caps) ==
    {caps.r.str, caps.g.str, caps.b.str} \cup (IF caps.a.some THEN {caps.a.str} ELSE {})

\* the component, as the f32 it parses to, lies in [0.0, 1.0]
InUnitRange(str) ==
    /\ parse_f32(str).tag = "Ok"
    /\ parse_f32(str).val.num >= 0
    /\ parse_f32(str).val.num <= parse_f32(str).val.den

\* the component, as the f32 it parses to, is greater than 1.0
AboveOne(str) ==
    parse_f32(str).tag = "Ok" /\ parse_f32(str).val.num > parse_f32(str).val.den

\* the component, as the decimal number its text writes, lies in [0.0, 1.0]
DecimalInUnitRange(str) ==
    /\ \A i \in 1..Len(str) : str[i] \in AsciiDigits \cup {"."}
    /\ DecimalValue(str).num <= DecimalValue(str).den

\* the component, as the decimal number its text writes, is greater than 1.0
DecimalAboveOne(str) ==
    /\ \A i \in 1..Len(str) : str[i] \in AsciiDigits \cup {"."}
    /\ DecimalValue(str).num > DecimalValue(str).den

C9_DefaultAlpha ==
    (parsed # NotCalled /\ parsed.tag = "Ok") =>
        LET caps == captures(text)
            r == parse_f32(caps.r.str).val
            g == parse_f32(caps.g.str).val
            b == parse_f32(caps.b.str).val
        IN  /\ ~caps.a.some =>
                  /\ parsed.color = from_f(r, g, b, F32_ONE)
                  /\ parsed.color.a = 255
            /\ caps.a.some =>
                  parsed.color = from_f(r, g, b, parse_f32(caps.a.str).val)

C9_Witness ==
    /\ parsed # NotCalled
    /\ parsed.tag = "Ok"
    /\ ~captures(text).a.some
    /\ parsed.color = [r |-> 64, g |-> 0, b |-> 255, a |-> 255]

(***************************************************************************)
(* Properties of the colour model (SpecModel)                              *)
(***************************************************************************)
\* C10: into_rgba(a) yields (r, g, b, a), and RGB::from of that colour
\* yields the original (r, g, b).
C10_IntoRgbaAndBack ==
    /\ rgba # NotCalled =>
          (rgba.r = rgb.r /\ rgba.g = rgb.g /\ rgba.b = rgb.b /\ rgba.a = alpha)
    /\ back # NotCalled => back = rgb

C10_Witness ==
    /\ back # NotCalled
    /\ rgb = [r |-> 255, g |-> 0, b |-> 10]
    /\ alpha = 128
    /\ rgba.a = 128

====
